---- MODULE Spec2Model ----
(***************************************************************************)
(* Model of replay_trajectory_classification: the movement-transition      *)
(* builders of state_transition.py and the fitting pipeline of             *)
(* classifier.py, on a 1-D track of NBins place bins.                      *)
(*                                                                         *)
(* Probabilities are exact rationals <<n, d>> in lowest terms (d > 0);     *)
(* <<0, 0>> is NaN, the value numpy gives 0/0.  "Sums to 1" is therefore   *)
(* exact here where the program's is within floating tolerance.            *)
(***************************************************************************)
EXTENDS Integers, Sequences, FiniteSets, TLC

VARIABLES self, last, copied

vars == <<self, last, copied>>

(* ------------------------------ bounds --------------------------------- *)
\* place bins of the 1-D grid
NBins == 3
\* time bins of a training position sequence
MaxTime == 3
\* largest replay_speed drawn (the default 40 needs more than 32 bits)
MaxReplaySpeed == 3

Bins == 1..NBins
ReplaySpeeds == 1..MaxReplaySpeed

\* the element of a one-element set: Only({F(x) : x \in {e}}) is F(e) with
\* e evaluated once
Only(S) == CHOOSE x \in S : TRUE

\* e, with its rows and entries computed once rather than at each use
Computed(e) == CHOOSE x \in {e} : x = x

(* --------------------------- exact rationals --------------------------- *)
RECURSIVE Gcd(_, _)
Gcd(a, b) == IF b = 0 THEN a ELSE Gcd(b, a % b)

NaN == <<0, 0>>
IsNaN(x) == x[2] = 0
Zero == <<0, 1>>
One == <<1, 1>>

Rat(n, d) ==
    IF d = 0 THEN NaN
    ELSE LET g == Gcd(IF n < 0 THEN -n ELSE n, d) IN <<n \div g, d \div g>>

RAdd(x, y) ==
    IF IsNaN(x) \/ IsNaN(y) THEN NaN
    ELSE LET g == Gcd(x[2], y[2])
         IN Rat(x[1] * (y[2] \div g) + y[1] * (x[2] \div g), (x[2] \div g) * y[2])

RSub(x, y) == RAdd(x, <<-y[1], y[2]>>)

RMul(x, y) ==
    IF IsNaN(x) \/ IsNaN(y) THEN NaN
    ELSE LET g1 == Gcd(IF x[1] < 0 THEN -x[1] ELSE x[1], y[2])
             g2 == Gcd(IF y[1] < 0 THEN -y[1] ELSE y[1], x[2])
             h1 == IF g1 = 0 THEN 1 ELSE g1
             h2 == IF g2 = 0 THEN 1 ELSE g2
         IN Rat((x[1] \div h1) * (y[1] \div h2), (x[2] \div h2) * (y[2] \div h1))

\* numpy division of non-negative floats: 0/0 is NaN
RDiv(x, y) ==
    IF IsNaN(x) \/ IsNaN(y) \/ y[1] = 0 THEN NaN
    ELSE RMul(x, <<y[2], y[1]>>)

RECURSIVE SumTo(_, _)
SumTo(f, n) == IF n = 0 THEN Zero ELSE RAdd(SumTo(f, n - 1), f[n])

\* x.sum() of a vector indexed 1..Len(x)
VSum(x) == SumTo(x, Len(x))

(* ------------------------------ matrices ------------------------------- *)
RowSum(M, i) == VSum(M[i])

MatMul(A, B) ==
    [i \in 1..Len(A) |->
        [j \in 1..Len(B[1]) |->
            SumTo([k \in 1..Len(B) |-> RMul(A[i][k], B[k][j])], Len(B))]]

\* np.linalg.matrix_power(M, k), k >= 1
RECURSIVE matrix_power(_, _)
matrix_power(M, k) ==
    IF k <= 1 THEN M ELSE Computed(MatMul(matrix_power(M, k - 1), M))

(* --------------------------- optional values --------------------------- *)
\* Python's None and a supplied value
None == <<>>
Some(v) == <<v>>
IsNone(o) == Len(o) = 0
Val(o) == o[1]

\* the outcome of a call: a returned value or a raised exception
Ok(v) == [err |-> "none", val |-> v]
Raise(e) == [err |-> e, val |-> <<>>]

(* ------------------------- state_transition.py ------------------------- *)
\* boolean masks over the place bins, flattened (ravel of a 1-D mask)
Masks == [Bins -> BOOLEAN]
\* binned training position sequences and the masks over their time bins
Trajectories == [1..MaxTime -> Bins]
TimeMasks == [1..MaxTime -> BOOLEAN]

Abs(a) == IF a < 0 THEN -a ELSE a

\* x[mask]: numpy boolean-mask indexing along the first axis
RECURSIVE TakeTo(_, _, _)
TakeTo(x, mask, n) ==
    IF n = 0 THEN <<>>
    ELSE IF mask[n] THEN Append(TakeTo(x, mask, n - 1), x[n])
         ELSE TakeTo(x, mask, n - 1)

BoolIndex(x, mask) == TakeTo(x, mask, Len(x))

_normalize_row_probability(x) ==
    [i \in 1..Len(x) |->
        LET s == RowSum(x, i)
        IN [j \in 1..Len(x[i]) |->
               LET q == RDiv(x[i][j], s)
               IN IF IsNaN(q) THEN Zero ELSE q]]

\* np.histogramdd of the rows (position[1:], position[:-1]): axis 0 is the
\* position at t + 1, axis 1 the position at t
movement_histogram(position) ==
    [a \in Bins |->
        [b \in Bins |->
            Rat(Cardinality({t \in 1..(Len(position) - 1) :
                                position[t + 1] = a /\ position[t] = b}), 1)]]

\* position[is_training], None meaning every time bin
training_position(position, is_training) ==
    BoolIndex(position,
              IF IsNone(is_training)
              THEN [t \in 1..Len(position) |-> TRUE]
              ELSE Val(is_training))

\* movement_bins after _normalize_row_probability, before matrix_power
empirical_movement_bins(position, is_training) ==
    _normalize_row_probability(
        movement_histogram(training_position(position, is_training)))

empirical_movement(position, is_training, replay_speed) ==
    matrix_power(empirical_movement_bins(position, is_training), replay_speed)

\* multivariate_normal(mean, cov).pdf at distance d from the mean: positive,
\* symmetric, strictly decreasing in d (stand-in for the Gaussian density)
GaussianPdf(d) == Rat(2 ^ (NBins - 1 - d), 1)

gaussian_kernel ==
    [x \in Bins |-> [b \in Bins |-> GaussianPdf(Abs(x - b))]]

random_walk(replay_speed) ==
    matrix_power(_normalize_row_probability(gaussian_kernel), replay_speed)

\* mutant: the exterior rows are zeroed, the exterior columns are not
zero_exterior_rows_only(transition_matrix, is_track_interior) ==
    [i \in Bins |->
        [j \in Bins |->
            IF is_track_interior[i] THEN transition_matrix[i][j] ELSE Zero]]

\* transition_matrix[~is_track_interior] = 0.0
\* transition_matrix[:, ~is_track_interior] = 0.0
zero_exterior(transition_matrix, is_track_interior) ==
    [i \in Bins |->
        [j \in Bins |->
            IF is_track_interior[i] /\ is_track_interior[j]
            THEN transition_matrix[i][j] ELSE Zero]]

random_walk_with_absorbing_boundaries(is_track_interior, replay_speed) ==
    matrix_power(
        _normalize_row_probability(
            zero_exterior(gaussian_kernel, is_track_interior)),
        replay_speed)

uniform_state_transition(is_track_interior) ==
    _normalize_row_probability(
        zero_exterior([i \in Bins |-> [j \in Bins |-> One]], is_track_interior))

identity(is_track_interior) ==
    _normalize_row_probability(
        zero_exterior([i \in Bins |-> [j \in Bins |-> IF i = j THEN One ELSE Zero]],
                      is_track_interior))

identity_discrete(n_states) ==
    [i \in 1..n_states |-> [j \in 1..n_states |-> IF i = j THEN One ELSE Zero]]

\* mutant: the off-diagonal mass is split over n_states entries
strong_diagonal_over_n_states(n_states, diag) ==
    IF n_states - 1 = 0 THEN Raise("ZeroDivisionError")
    ELSE Ok([i \in 1..n_states |->
                [j \in 1..n_states |->
                    IF i = j THEN RMul(One, diag)
                    ELSE RDiv(RSub(One, diag), Rat(n_states, 1))]])

\* (1 - diag) / (n_states - 1) divides Python numbers: n_states = 1 raises
strong_diagonal_discrete(n_states, diag) ==
    IF n_states - 1 = 0 THEN Raise("ZeroDivisionError")
    ELSE Ok([i \in 1..n_states |->
                [j \in 1..n_states |->
                    IF i = j THEN RMul(One, diag)
                    ELSE RDiv(RSub(One, diag), Rat(n_states - 1, 1))]])

uniform_discrete(n_states) ==
    [i \in 1..n_states |->
        [j \in 1..n_states |-> RDiv(One, Rat(n_states, 1))]]

(* ------------------- direct calls of the builders ---------------------- *)
\* Each behaviour makes one call of one builder, on arguments drawn from the
\* bounded sets; last records the call and what it returned.
\* largest n_states a discrete builder is called with
MaxStates == 3

\* _DISCRETE_DIAG = 1 - 1E-2
DISCRETE_DIAG == Rat(99, 100)
Diags == {Rat(1, 4), Rat(1, 2), DISCRETE_DIAG}

OptTimeMasks == {None} \cup {Some(m) : m \in TimeMasks}

NoCall ==
    [op |-> "none", position |-> <<>>, is_training |-> None, replay_speed |-> 1,
     is_track_interior |-> [b \in Bins |-> TRUE], n_states |-> 1,
     diag |-> DISCRETE_DIAG, out |-> Ok(<<>>)]

NoClassifier == [kind |-> "none"]

\* what copy() returned: the copy, and the attributes whose value is one
\* object held by both instances (no copy made yet: NoCopy)
NoCopy == [instance |-> NoClassifier, shared |-> {}]

InitBuilders ==
    /\ self = NoClassifier
    /\ last = NoCall
    /\ copied = NoCopy

CallEmpiricalMovement ==
    \E position \in Trajectories, is_training \in OptTimeMasks,
       replay_speed \in ReplaySpeeds :
        /\ last.op = "none"
        /\ last' = [NoCall EXCEPT !.op = "empirical_movement",
                                  !.position = position,
                                  !.is_training = is_training,
                                  !.replay_speed = replay_speed,
                                  !.out = Ok(empirical_movement(
                                      position, is_training, replay_speed))]
        /\ UNCHANGED <<self, copied>>

CallRandomWalk ==
    \E replay_speed \in ReplaySpeeds :
        /\ last.op = "none"
        /\ last' = [NoCall EXCEPT !.op = "random_walk",
                                  !.replay_speed = replay_speed,
                                  !.out = Ok(random_walk(replay_speed))]
        /\ UNCHANGED <<self, copied>>

CallRandomWalkAbsorbing ==
    \E is_track_interior \in Masks, replay_speed \in ReplaySpeeds :
        /\ last.op = "none"
        /\ last' = [NoCall EXCEPT !.op = "random_walk_with_absorbing_boundaries",
                                  !.is_track_interior = is_track_interior,
                                  !.replay_speed = replay_speed,
                                  !.out = Ok(random_walk_with_absorbing_boundaries(
                                      is_track_interior, replay_speed))]
        /\ UNCHANGED <<self, copied>>

CallUniform ==
    \E is_track_interior \in Masks :
        /\ last.op = "none"
        /\ last' = [NoCall EXCEPT !.op = "uniform_state_transition",
                                  !.is_track_interior = is_track_interior,
                                  !.out = Ok(uniform_state_transition(
                                      is_track_interior))]
        /\ UNCHANGED <<self, copied>>

CallIdentity ==
    \E is_track_interior \in Masks :
        /\ last.op = "none"
        /\ last' = [NoCall EXCEPT !.op = "identity",
                                  !.is_track_interior = is_track_interior,
                                  !.out = Ok(identity(is_track_interior))]
        /\ UNCHANGED <<self, copied>>

CallIdentityDiscrete ==
    \E n_states \in 1..MaxStates :
        /\ last.op = "none"
        /\ last' = [NoCall EXCEPT !.op = "identity_discrete",
                                  !.n_states = n_states,
                                  !.out = Ok(identity_discrete(n_states))]
        /\ UNCHANGED <<self, copied>>

CallStrongDiagonalDiscrete ==
    \E n_states \in 1..MaxStates, diag \in Diags :
        /\ last.op = "none"
        /\ last' = [NoCall EXCEPT !.op = "strong_diagonal_discrete",
                                  !.n_states = n_states,
                                  !.diag = diag,
                                  !.out = strong_diagonal_discrete(n_states, diag)]
        /\ UNCHANGED <<self, copied>>

CallUniformDiscrete ==
    \E n_states \in 1..MaxStates :
        /\ last.op = "none"
        /\ last' = [NoCall EXCEPT !.op = "uniform_discrete",
                                  !.n_states = n_states,
                                  !.out = Ok(uniform_discrete(n_states))]
        /\ UNCHANGED <<self, copied>>

NextBuilders ==
    \/ CallEmpiricalMovement
    \/ CallRandomWalk
    \/ CallRandomWalkAbsorbing
    \/ CallUniform
    \/ CallIdentity
    \/ CallIdentityDiscrete
    \/ CallStrongDiagonalDiscrete
    \/ CallUniformDiscrete

SpecBuilders == InitBuilders /\ [][NextBuilders]_vars

(* --------------------- properties of the builders ---------------------- *)
ContinuousBuilders ==
    {"empirical_movement", "random_walk", "random_walk_with_absorbing_boundaries",
     "uniform_state_transition", "identity"}

PowerBuilders ==
    {"empirical_movement", "random_walk", "random_walk_with_absorbing_boundaries"}

MaskedBuilders ==
    {"random_walk_with_absorbing_boundaries", "uniform_state_transition", "identity"}

\* the row-normalised matrix the last call raised to the power replay_speed
LastBase ==
    CASE last.op = "empirical_movement" ->
            empirical_movement_bins(last.position, last.is_training)
      [] last.op = "random_walk" ->
            _normalize_row_probability(gaussian_kernel)
      [] OTHER ->
            _normalize_row_probability(
                zero_exterior(gaussian_kernel, last.is_track_interior))

\* C1: every row of every matrix a continuous builder returns sums to 1 or
\* to exactly 0.
C1_RowsSumToOneOrZero ==
    last.op \in ContinuousBuilders =>
        \A i \in Bins : RowSum(last.out.val, i) \in {One, Zero}

\* C2: raising the row-normalised matrix to the power replay_speed keeps
\* every row sum: 1 where the row summed to 1, 0 where the row was 0.
C2_PowerPreservesRowSums ==
    last.op \in PowerBuilders =>
        \A i \in Bins :
            /\ RowSum(LastBase, i) \in {One, Zero}
            /\ RowSum(last.out.val, i) = RowSum(LastBase, i)

\* C3: in the matrices of random_walk_with_absorbing_boundaries,
\* uniform_state_transition and identity every exterior row and column is
\* zero, and one step maps a distribution on the interior bins to a
\* distribution on the interior bins: an interior row has no mass on an
\* exterior bin and loses none (it sums to 1).
C3_NoMassAcrossTrackBoundary ==
    last.op \in MaskedBuilders =>
        \A i \in Bins :
            /\ \A j \in Bins :
                   (~last.is_track_interior[i] \/ ~last.is_track_interior[j])
                       => last.out.val[i][j] = Zero
            /\ last.is_track_interior[i] => RowSum(last.out.val, i) = One

C3_Witness ==
    /\ last.op = "random_walk_with_absorbing_boundaries"
    /\ last.replay_speed >= 2
    /\ \E i, j, k \in Bins :
           /\ i < j /\ j < k
           /\ last.is_track_interior[i] /\ ~last.is_track_interior[j]
           /\ last.is_track_interior[k]
           /\ last.out.val[i][j] = Zero
           /\ last.out.val[i][k] # Zero

\* counted transitions of the training samples from bin i to bin j
TransitionCount(position, i, j) ==
    Cardinality({t \in 1..(Len(position) - 1) :
                    position[t] = i /\ position[t + 1] = j})

RECURSIVE LeavingTo(_, _, _)
LeavingTo(position, i, n) ==
    IF n = 0 THEN 0
    ELSE LeavingTo(position, i, n - 1) + TransitionCount(position, i, n)

\* C4: with replay_speed = 1, entry [i, j] of empirical_movement is the
\* number of counted transitions from bin i (time t) to bin j (time t + 1)
\* over the number of counted transitions leaving bin i, 0 when none leaves.
C4_EntryIsForwardProbability ==
    (last.op = "empirical_movement" /\ last.replay_speed = 1) =>
        LET counted == training_position(last.position, last.is_training)
        IN \A i, j \in Bins :
               last.out.val[i][j] =
                   IF LeavingTo(counted, i, NBins) = 0 THEN Zero
                   ELSE Rat(TransitionCount(counted, i, j),
                            LeavingTo(counted, i, NBins))

\* C5: strong_diagonal_discrete(n, diag), n >= 2 and 0 < diag < 1, has diag
\* on the diagonal, (1 - diag) / (n - 1) off it, and rows that sum to 1.
C5_StrongDiagonal ==
    (last.op = "strong_diagonal_discrete" /\ last.n_states >= 2) =>
        /\ last.out.err = "none"
        /\ Len(last.out.val) = last.n_states
        /\ \A i \in 1..last.n_states :
               /\ Len(last.out.val[i]) = last.n_states
               /\ RowSum(last.out.val, i) = One
               /\ \A j \in 1..last.n_states :
                      last.out.val[i][j] =
                          IF i = j THEN last.diag
                          ELSE RDiv(RSub(One, last.diag),
                                    Rat(last.n_states - 1, 1))

C5_Witness ==
    /\ last.op = "strong_diagonal_discrete"
    /\ last.n_states >= 3
    /\ last.diag = DISCRETE_DIAG
    /\ last.out.err = "none"
    /\ last.out.val[1][2] = Rat(1, 200)

(* ============================ classifier.py ============================ *)
\* An attribute that was never assigned is Unset (reading it raises
\* AttributeError); an assigned attribute holds Some(value).
Unset == <<>>
IsSet(a) == Len(a) = 1

\* _DEFAULT_CONTINUOUS_TRANSITIONS
DEFAULT_CONTINUOUS_TRANSITIONS ==
    << <<"random_walk", "uniform", "identity">>,
       <<"uniform", "uniform", "uniform">>,
       <<"random_walk", "uniform", "identity">> >>

\* configured continuous_transition_types grids, of 1, 2 and 3 regimes
TypeGrids ==
    { << <<"random_walk_with_absorbing_boundaries">> >>,
      << <<"empirical_movement", "empirical_movement">>,
         <<"empirical_movement", "empirical_movement">> >>,
      DEFAULT_CONTINUOUS_TRANSITIONS }

DiscreteTypes == {"strong_diagonal", "identity", "uniform"}

\* the track_graph argument: None, or a track graph to linearise
NoGraph == "None"
TrackGraphs == {"track_graph"}

\* __init__ of _ClassifierBase and of the two concrete classifiers
New(kind, replay_speed, continuous_transition_types, discrete_transition_type, discrete_transition_diag, infer_track_interior) ==
    [kind |-> kind,
     replay_speed |-> replay_speed,
     continuous_transition_types |-> continuous_transition_types,
     discrete_transition_type |-> discrete_transition_type,
     discrete_transition_diag |-> discrete_transition_diag,
     infer_track_interior |-> infer_track_interior,
     edges_ |-> Unset,
     place_bin_centers_ |-> Unset,
     is_track_interior_ |-> Unset,
     place_bin_center_ind_to_node_ |-> Unset,
     distance_between_nodes_ |-> Unset,
     track_graph_ |-> Unset,
     initial_conditions_ |-> Unset,
     continuous_state_transition_ |-> Unset,
     discrete_state_transition_ |-> Unset,
     observation_model_ |-> Unset]

\* the configuration a classifier was constructed with or later assigned
Renew(obj) ==
    New(obj.kind, obj.replay_speed, obj.continuous_transition_types,
        obj.discrete_transition_type, obj.discrete_transition_diag,
        obj.infer_track_interior)

\* core.get_track_interior: a bin is interior if the position ever fell in it
get_track_interior(position) ==
    [b \in Bins |-> \E t \in 1..Len(position) : position[t] = b]

\* fit_place_grid.  The free-space grid (get_grid) and the grid of a track
\* graph (get_track_grid) both have the bins Bins; edges_ and
\* place_bin_centers_ hold the graph the grid was laid on (NoGraph: free space).
fit_place_grid(obj, position, track_graph, infer_track_interior, is_track_interior) ==
    IF track_graph = NoGraph
    THEN LET grid == [obj EXCEPT !.edges_ = Some(NoGraph),
                                 !.place_bin_centers_ = Some(NoGraph),
                                 !.place_bin_center_ind_to_node_ = Some(NoGraph),
                                 !.distance_between_nodes_ = Some(NoGraph),
                                 !.infer_track_interior = infer_track_interior]
         IN IF IsNone(is_track_interior) /\ infer_track_interior
            THEN [grid EXCEPT !.is_track_interior_ = Some(get_track_interior(position))]
            ELSE IF IsNone(is_track_interior) /\ ~infer_track_interior
            THEN [grid EXCEPT !.is_track_interior_ = Some([b \in Bins |-> TRUE])]
            ELSE grid
    ELSE [obj EXCEPT !.place_bin_centers_ = Some(track_graph),
                     !.is_track_interior_ = Some([b \in Bins |-> TRUE]),
                     !.distance_between_nodes_ = Some(track_graph),
                     !.place_bin_center_ind_to_node_ = Some(track_graph),
                     !.edges_ = Some(track_graph),
                     !.track_graph_ = Some(track_graph)]

\* initial_conditions.uniform_on_track
uniform_on_track(is_track_interior) ==
    LET uniform == [b \in Bins |-> IF is_track_interior[b] THEN One ELSE Zero]
    IN [b \in Bins |-> RDiv(uniform[b], VSum(uniform))]

\* the outcome of a fitting step: the instance as the step left it, and the
\* exception it raised ("none": it returned)
Done(obj) == [err |-> "none", self |-> obj]
Failed(e, obj) == [err |-> e, self |-> obj]

\* mutant: the replicated distribution is not divided by n_states
fit_initial_conditions_undivided(obj) ==
    LET n_states == Len(obj.continuous_transition_types)
    IN IF ~IsSet(obj.place_bin_centers_) \/ ~IsSet(obj.is_track_interior_)
       THEN Failed("AttributeError", obj)
       ELSE LET initial_conditions == uniform_on_track(Val(obj.is_track_interior_))
            IN Done([obj EXCEPT !.initial_conditions_ =
                      Some([s \in 1..n_states |->
                              [b \in Bins |-> <<initial_conditions[b]>>]])])

fit_initial_conditions(obj) ==
    LET n_states == Len(obj.continuous_transition_types)
    IN IF ~IsSet(obj.place_bin_centers_) \/ ~IsSet(obj.is_track_interior_)
       THEN Failed("AttributeError", obj)
       ELSE LET initial_conditions == uniform_on_track(Val(obj.is_track_interior_))
            IN Done([obj EXCEPT !.initial_conditions_ =
                      Some([s \in 1..n_states |->
                              [b \in Bins |->
                                  <<RDiv(initial_conditions[b], Rat(n_states, 1))>>]])])

\* CONTINUOUS_TRANSITIONS[transition_type](place_bin_centers, is_track_interior,
\* position, edges, is_training, replay_speed, position_range, movement_var, ...):
\* the builder of that name on the arguments it takes
CONTINUOUS_TRANSITIONS(transition_type, is_track_interior, position, is_training, replay_speed) ==
    CASE transition_type = "empirical_movement" ->
            empirical_movement(position, is_training, replay_speed)
      [] transition_type = "random_walk" -> random_walk(replay_speed)
      [] transition_type = "random_walk_with_absorbing_boundaries" ->
            random_walk_with_absorbing_boundaries(is_track_interior, replay_speed)
      [] transition_type = "uniform" -> uniform_state_transition(is_track_interior)
      [] transition_type = "identity" -> identity(is_track_interior)

ZeroMatrix == [i \in Bins |-> [j \in Bins |-> Zero]]

fit_continuous_state_transition(obj, position, is_training, replay_speed, continuous_transition_types) ==
    LET configured ==
            [obj EXCEPT !.replay_speed =
                            IF IsNone(replay_speed) THEN @ ELSE Val(replay_speed),
                        !.continuous_transition_types = continuous_transition_types]
        n_states == Len(continuous_transition_types)
        zeros == [r \in 1..n_states |-> [c \in 1..n_states |-> ZeroMatrix]]
        training == IF IsNone(is_training)
                    THEN [t \in 1..Len(position) |-> TRUE]
                    ELSE Val(is_training)
        names == {continuous_transition_types[r][c] : r, c \in 1..n_states}
        \* every cell of one type is built from the same arguments
        built == Computed([transition_type \in names |->
                     CONTINUOUS_TRANSITIONS(transition_type,
                                            Val(obj.is_track_interior_), position,
                                            Some(training), configured.replay_speed)])
    IN IF ~IsSet(obj.place_bin_centers_)
       THEN Failed("AttributeError", configured)
       ELSE IF ~IsSet(obj.is_track_interior_)
       THEN Failed("AttributeError",
                   [configured EXCEPT !.continuous_state_transition_ = Some(zeros)])
       ELSE Only({Done([configured EXCEPT !.continuous_state_transition_ =
                          Some([r \in 1..n_states |->
                                  [c \in 1..n_states |->
                                      by_name[continuous_transition_types[r][c]]]])]) :
                  by_name \in {built}})

\* DISCRETE_TRANSITIONS[discrete_transition_type](n_states, diag): the builder
\* of that name on the arguments it takes
DISCRETE_TRANSITIONS(discrete_transition_type, n_states, diag) ==
    CASE discrete_transition_type = "strong_diagonal" ->
            strong_diagonal_discrete(n_states, diag)
      [] discrete_transition_type = "identity" -> Ok(identity_discrete(n_states))
      [] discrete_transition_type = "uniform" -> Ok(uniform_discrete(n_states))

fit_discrete_state_transition(obj, discrete_transition_diag) ==
    LET configured ==
            [obj EXCEPT !.discrete_transition_diag =
                            IF IsNone(discrete_transition_diag) THEN @
                            ELSE Val(discrete_transition_diag)]
        n_states == Len(obj.continuous_transition_types)
        built == DISCRETE_TRANSITIONS(obj.discrete_transition_type, n_states,
                                      configured.discrete_transition_diag)
    IN IF built.err # "none" THEN Failed(built.err, configured)
       ELSE Done([configured EXCEPT !.discrete_state_transition_ = Some(built.val)])

\* fit_place_fields / fit_multiunits: the observation model is kept as what
\* it was fitted from, the training samples and the grid; an empty training
\* selection is rejected by the fitting routine
fit_observation_model(obj, position, is_training) ==
    IF ~IsSet(obj.place_bin_centers_)
       \/ (obj.kind = "ClusterlessClassifier" /\ ~IsSet(obj.is_track_interior_))
    THEN Failed("AttributeError", obj)
    ELSE IF Len(training_position(position, is_training)) = 0
    THEN Failed("ValueError", obj)
    ELSE Done([obj EXCEPT !.observation_model_ =
                 Some([position |-> training_position(position, is_training),
                       place_bin_centers |-> Val(obj.place_bin_centers_)])])

\* one step of fit: skipped once an earlier step has raised; res is what
\* the step does on run.self
Then(run, name, res) ==
    IF run.err # "none" THEN run
    ELSE [self |-> res.self, err |-> res.err, steps |-> Append(run.steps, name)]

\* SortedSpikesClassifier.fit / ClusterlessClassifier.fit
fit(obj, position, is_training, is_track_interior, track_graph) ==
    Only({Then(run4, "fit_observation_model",
               fit_observation_model(run4.self, position, is_training)) :
        run4 \in {Then(run3, "fit_discrete_state_transition",
                       fit_discrete_state_transition(run3.self, None)) :
        run3 \in {Then(run2, "fit_continuous_state_transition",
                       fit_continuous_state_transition(
                           run2.self, position, is_training, None,
                           run2.self.continuous_transition_types)) :
        run2 \in {Then(run1, "fit_initial_conditions",
                       fit_initial_conditions(run1.self)) :
        run1 \in {Then([self |-> obj, err |-> "none", steps |-> <<>>],
                       "fit_place_grid",
                       Done(fit_place_grid(obj, position, track_graph,
                                           obj.infer_track_interior,
                                           is_track_interior)))}}}}})

(* ------------------------------ predict -------------------------------- *)
\* time bins of a decoded observation sequence
PredictTime == 2

\* spiking_likelihood.estimate_spiking_likelihood /
\* multiunit_likelihood.estimate_multiunit_likelihood: a positive likelihood
\* on the interior bins, largest at the bin the observation points to, and
\* zero on the exterior bins
estimate_likelihood(observations, is_track_interior) ==
    [t \in 1..Len(observations) |->
        [b \in Bins |->
            IF ~is_track_interior[b] THEN Zero
            ELSE IF observations[t] = b THEN Rat(2, 1) ELSE One]]

\* core.normalize_to_probability over the joint (regime, bin) space
JointSum(x) ==
    SumTo([s \in 1..Len(x) |-> SumTo([b \in Bins |-> x[s][b][1]], NBins)], Len(x))

normalize_to_probability(x) ==
    LET total == JointSum(x)
    IN [s \in 1..Len(x) |-> [b \in Bins |-> <<RDiv(x[s][b][1], total)>>]]

\* core._causal_classify: the forward recursion
RECURSIVE causal_step(_, _, _, _, _)
causal_step(initial_conditions, continuous, discrete, likelihood, t) ==
    LET n_states == Len(initial_conditions)
    IN IF t = 1
       THEN normalize_to_probability(
                [s \in 1..n_states |->
                    [b \in Bins |-> <<RMul(initial_conditions[s][b][1], likelihood[1][b])>>]])
       ELSE LET previous == causal_step(initial_conditions, continuous, discrete,
                                        likelihood, t - 1)
                prior(s1, b1) ==
                    SumTo([s \in 1..n_states |->
                              RMul(discrete[s][s1],
                                   SumTo([b \in Bins |->
                                             RMul(previous[s][b][1],
                                                  continuous[s][s1][b][b1])],
                                         NBins))],
                          n_states)
            IN normalize_to_probability(
                   [s1 \in 1..n_states |->
                       [b1 \in Bins |-> <<RMul(prior(s1, b1), likelihood[t][b1])>>]])

_causal_classify(initial_conditions, continuous, discrete, likelihood) ==
    [t \in 1..Len(likelihood) |->
        causal_step(initial_conditions, continuous, discrete, likelihood, t)]

\* core.mask: the entries of the exterior bins are nulled to zero
mask(value, is_track_interior) ==
    [t \in 1..Len(value) |->
        [s \in 1..Len(value[t]) |->
            [b \in Bins |-> IF is_track_interior[b] THEN value[t][s][b] ELSE <<Zero>>]]]

\* SortedSpikesClassifier.predict / ClusterlessClassifier.predict: the causal
\* posterior of the result dataset, or the AttributeError of reading an
\* attribute fit never set
predict(obj, observations) ==
    IF \/ ~IsSet(obj.continuous_state_transition_)
       \/ ~IsSet(obj.observation_model_)
       \/ ~IsSet(obj.is_track_interior_)
       \/ ~IsSet(obj.initial_conditions_)
       \/ ~IsSet(obj.discrete_state_transition_)
    THEN Raise("AttributeError")
    ELSE Ok(mask(_causal_classify(
                     Val(obj.initial_conditions_),
                     Val(obj.continuous_state_transition_),
                     Val(obj.discrete_state_transition_),
                     estimate_likelihood(observations, Val(obj.is_track_interior_))),
                 Val(obj.is_track_interior_)))

(* ------------------------ the classifier's life ------------------------ *)
\* fitting calls made on one instance
MaxCalls == 2

ClassifierKinds == {"SortedSpikesClassifier", "ClusterlessClassifier"}

\* training position of fit: a sweep over the track, one bin per time bin,
\* and a run that dwells in the first bin and ends in the second
FitPositions ==
    {[t \in 1..NBins |-> t], [t \in 1..NBins |-> IF t < NBins THEN 1 ELSE 2]}

\* is_training of fit: None, or every time bin but the second
FitTraining == {None, Some([t \in 1..NBins |-> t # 2])}

\* is_track_interior of fit: None, or a mask with the last bin exterior
FitInteriors == {None, Some([b \in Bins |-> b # NBins])}

\* the bin each decoded time bin's observation points to
Observations == {[t \in 1..PredictTime |-> b] : b \in Bins}

NoFitCall ==
    [op |-> "none", calls |-> 0, position |-> <<>>, is_training |-> None,
     is_track_interior |-> None, track_graph |-> NoGraph,
     discrete_transition_diag |-> None, observations |-> <<>>,
     steps |-> <<>>, err |-> "none", out |-> <<>>]

Init ==
    /\ \E kind \in ClassifierKinds, types \in TypeGrids,
          discrete_transition_type \in DiscreteTypes,
          infer_track_interior \in BOOLEAN :
           self = New(kind, MaxReplaySpeed, types, discrete_transition_type,
                      DISCRETE_DIAG, infer_track_interior)
    /\ last = NoFitCall
    /\ copied = NoCopy

\* predict leaves the instance as it is, so a fitting call that follows a
\* predict does what the same call does without it: fitting calls after a
\* predict are not explored further
Fit ==
    /\ last.op # "predict"
    /\ last.calls < MaxCalls
    /\ \E position \in FitPositions, is_training \in FitTraining,
          is_track_interior \in FitInteriors, track_graph \in {NoGraph} \cup TrackGraphs :
           \E run \in {fit(self, position, is_training, is_track_interior, track_graph)} :
              /\ self' = run.self
              /\ UNCHANGED copied
              /\ last' = [NoFitCall EXCEPT !.op = "fit",
                                           !.calls = last.calls + 1,
                                           !.position = position,
                                           !.is_training = is_training,
                                           !.is_track_interior = is_track_interior,
                                           !.track_graph = track_graph,
                                           !.steps = run.steps,
                                           !.err = run.err]

FitInitialConditions ==
    /\ last.op # "predict"
    /\ last.calls < MaxCalls
    /\ \E res \in {fit_initial_conditions(self)} :
          /\ self' = res.self
          /\ UNCHANGED copied
          /\ last' = [NoFitCall EXCEPT !.op = "fit_initial_conditions",
                                       !.calls = last.calls + 1,
                                       !.steps = <<"fit_initial_conditions">>,
                                       !.err = res.err]

FitDiscreteStateTransition ==
    /\ last.op # "predict"
    /\ last.calls < MaxCalls
    /\ \E discrete_transition_diag \in {None, Some(Rat(1, 2))} :
          \E res \in {fit_discrete_state_transition(self, discrete_transition_diag)} :
             /\ self' = res.self
             /\ UNCHANGED copied
             /\ last' = [NoFitCall EXCEPT !.op = "fit_discrete_state_transition",
                                          !.calls = last.calls + 1,
                                          !.discrete_transition_diag =
                                              discrete_transition_diag,
                                          !.steps = <<"fit_discrete_state_transition">>,
                                          !.err = res.err]

\* mutant: predict keeps the last posterior as the next initial conditions
Predict_keeping_posterior ==
    \E observations \in Observations :
       \E res \in {predict(self, observations)} :
          /\ self' = IF res.err # "none" THEN self
                     ELSE [self EXCEPT !.initial_conditions_ =
                                           Some(res.val[Len(res.val)])]
          /\ UNCHANGED copied
          /\ last' = [NoFitCall EXCEPT !.op = "predict",
                                       !.calls = last.calls,
                                       !.observations = observations,
                                       !.err = res.err,
                                       !.out = res.val]

\* predict assigns no attribute of the instance; it may follow a predict
Predict ==
    /\ \E observations \in Observations :
          \E res \in {predict(self, observations)} :
             /\ UNCHANGED <<self, copied>>
             /\ last' = [NoFitCall EXCEPT !.op = "predict",
                                          !.calls = last.calls,
                                          !.observations = observations,
                                          !.err = res.err,
                                          !.out = res.val]

Next ==
    \/ Fit
    \/ FitInitialConditions
    \/ FitDiscreteStateTransition
    \/ Predict

Spec == Init /\ [][Next]_vars

(* -------------------------------- copy --------------------------------- *)
\* the attributes whose value is a mutable object (a list or an array)
MutableAttributes ==
    {"continuous_transition_types", "edges_", "place_bin_centers_",
     "is_track_interior_", "initial_conditions_", "continuous_state_transition_",
     "discrete_state_transition_", "observation_model_"}

\* mutant: copy.copy(self), the copy holds the original's objects
shallow_copy(obj) == [instance |-> obj, shared |-> MutableAttributes]

\* _ClassifierBase.copy: deepcopy(self), every object is copied
copy(obj) == [instance |-> obj, shared |-> {}]

\* the attributes a fitting step assigns a new object to
Assigns(step) ==
    CASE step = "fit_place_grid" -> {"edges_", "place_bin_centers_"}
      [] step = "fit_initial_conditions" -> {"initial_conditions_"}
      [] step = "fit_continuous_state_transition" -> {"continuous_state_transition_"}
      [] step = "fit_discrete_state_transition" -> {"discrete_state_transition_"}
      [] step = "fit_observation_model" -> {"observation_model_"}

\* continuous_transition_types[row][column] = transition_type, in place
setitem(grid, row, column, transition_type) ==
    [grid EXCEPT ![row][column] = transition_type]

\* one fit of the original, then copy(), then one call on either instance
FitOriginal ==
    /\ last.op \in {"none", "copy"}
    /\ Fit

Copy ==
    /\ copied = NoCopy
    /\ last.op \in {"none", "fit"}
    /\ copied' = copy(self)
    /\ UNCHANGED self
    /\ last' = [NoFitCall EXCEPT !.op = "copy", !.calls = last.calls]

CopyFit ==
    /\ last.op = "copy"
    /\ \E position \in FitPositions, is_training \in FitTraining,
          is_track_interior \in FitInteriors, track_graph \in {NoGraph} \cup TrackGraphs :
           \E run \in {fit(copied.instance, position, is_training, is_track_interior,
                           track_graph)} :
              /\ copied' = [instance |-> run.self,
                            shared |-> copied.shared \
                                UNION {Assigns(run.steps[k]) : k \in 1..Len(run.steps)}]
              /\ UNCHANGED self
              /\ last' = [NoFitCall EXCEPT !.op = "copy.fit",
                                           !.calls = last.calls + 1,
                                           !.position = position,
                                           !.is_training = is_training,
                                           !.is_track_interior = is_track_interior,
                                           !.track_graph = track_graph,
                                           !.steps = run.steps,
                                           !.err = run.err]

\* copy.replay_speed = ..., copy.discrete_transition_type = ...
CopySetAttr ==
    /\ last.op = "copy"
    /\ \E replay_speed \in ReplaySpeeds, discrete_transition_type \in DiscreteTypes :
          /\ copied' = [copied EXCEPT
                            !.instance.replay_speed = replay_speed,
                            !.instance.discrete_transition_type = discrete_transition_type]
          /\ UNCHANGED self
          /\ last' = [NoFitCall EXCEPT !.op = "copy.setattr", !.calls = last.calls]

\* copy.continuous_transition_types[0][0] = ...: every holder of the list
\* object sees the change
CopySetItem ==
    /\ last.op = "copy"
    /\ \E transition_type \in {"identity", "uniform"} :
          /\ copied' = [copied EXCEPT !.instance.continuous_transition_types =
                                          setitem(@, 1, 1, transition_type)]
          /\ self' = IF "continuous_transition_types" \in copied.shared
                     THEN [self EXCEPT !.continuous_transition_types =
                                           setitem(@, 1, 1, transition_type)]
                     ELSE self
          /\ last' = [NoFitCall EXCEPT !.op = "copy.setitem", !.calls = last.calls]

\* self.continuous_transition_types[0][0] = ... on the original
OriginalSetItem ==
    /\ last.op = "copy"
    /\ \E transition_type \in {"identity", "uniform"} :
          /\ self' = [self EXCEPT !.continuous_transition_types =
                                      setitem(@, 1, 1, transition_type)]
          /\ copied' = IF "continuous_transition_types" \in copied.shared
                       THEN [copied EXCEPT !.instance.continuous_transition_types =
                                               setitem(@, 1, 1, transition_type)]
                       ELSE copied
          /\ last' = [NoFitCall EXCEPT !.op = "setitem", !.calls = last.calls]

NextCopy ==
    \/ FitOriginal
    \/ Copy
    \/ CopyFit
    \/ CopySetAttr
    \/ CopySetItem
    \/ OriginalSetItem

SpecCopy == Init /\ [][NextCopy]_vars

(* ----------------------- the public fitting steps --------------------- *)
\* fit_continuous_state_transition(position, is_training, replay_speed,
\* continuous_transition_types): the last parameter, when omitted, is
\* _DEFAULT_CONTINUOUS_TRANSITIONS
FitContinuousStateTransition ==
    /\ last.op # "predict"
    /\ last.calls < MaxCalls
    /\ \E position \in FitPositions, replay_speed \in {None, Some(1)},
          continuous_transition_types \in {None, Some(self.continuous_transition_types)} :
           \E res \in {fit_continuous_state_transition(
                           self, position, None, replay_speed,
                           IF IsNone(continuous_transition_types)
                           THEN DEFAULT_CONTINUOUS_TRANSITIONS
                           ELSE Val(continuous_transition_types))} :
              /\ self' = res.self
              /\ UNCHANGED copied
              /\ last' = [NoFitCall EXCEPT !.op = "fit_continuous_state_transition",
                                           !.calls = last.calls + 1,
                                           !.position = position,
                                           !.out = continuous_transition_types,
                                           !.steps = <<"fit_continuous_state_transition">>,
                                           !.err = res.err]

\* fit and the three public fitting steps, in any order
NextSteps ==
    \/ Fit
    \/ FitInitialConditions
    \/ FitContinuousStateTransition
    \/ FitDiscreteStateTransition

SpecSteps == Init /\ [][NextSteps]_vars

(* ------------------------- the classifier base ------------------------ *)
\* _ClassifierBase.fit(self) and _ClassifierBase.predict(self) take no
\* argument: a call that passes any is rejected before the body runs
_ClassifierBase_fit(obj, arguments) ==
    IF Len(arguments) > 0 THEN Failed("TypeError", obj)
    ELSE Failed("NotImplementedError", obj)

_ClassifierBase_predict(obj, arguments) ==
    IF Len(arguments) > 0 THEN Failed("TypeError", obj)
    ELSE Failed("NotImplementedError", obj)

\* the arguments of a call of fit: none, position, or position and is_training
BaseFitArguments ==
    {<<>>} \cup {<<position>> : position \in FitPositions}
           \cup {<<position, is_training>> :
                    position \in FitPositions, is_training \in FitTraining}

BasePredictArguments == {<<>>} \cup {<<observations>> : observations \in Observations}

InitBase ==
    /\ \E types \in TypeGrids, discrete_transition_type \in DiscreteTypes,
          infer_track_interior \in BOOLEAN :
           self = New("_ClassifierBase", MaxReplaySpeed, types,
                      discrete_transition_type, DISCRETE_DIAG, infer_track_interior)
    /\ last = NoFitCall
    /\ copied = NoCopy

BaseFit ==
    /\ last.calls < MaxCalls
    /\ \E arguments \in BaseFitArguments :
          \E res \in {_ClassifierBase_fit(self, arguments)} :
             /\ self' = res.self
             /\ UNCHANGED copied
             /\ last' = [NoFitCall EXCEPT !.op = "fit",
                                          !.calls = last.calls + 1,
                                          !.out = arguments,
                                          !.err = res.err]

BasePredict ==
    /\ last.calls < MaxCalls
    /\ \E arguments \in BasePredictArguments :
          \E res \in {_ClassifierBase_predict(self, arguments)} :
             /\ self' = res.self
             /\ UNCHANGED copied
             /\ last' = [NoFitCall EXCEPT !.op = "predict",
                                          !.calls = last.calls + 1,
                                          !.out = arguments,
                                          !.err = res.err]

\* the fitting steps are methods of the base and run on it
NextBase ==
    \/ BaseFit
    \/ BasePredict
    \/ FitInitialConditions
    \/ FitDiscreteStateTransition

SpecBase == InitBase /\ [][NextBase]_vars

(* ---------------------- properties of the classifier ------------------- *)
\* the last call ran the fitting step of that name, and the step returned
Ran(name) == \E k \in 1..Len(last.steps) : last.steps[k] = name
Raised(name) ==
    /\ last.err # "none"
    /\ Len(last.steps) > 0
    /\ last.steps[Len(last.steps)] = name
Returned(name) == Ran(name) /\ ~Raised(name)

n_states == Len(self.continuous_transition_types)

\* C6: for each discrete_transition_type and each configured grid of
\* continuous transition types, fit_discrete_state_transition returns and
\* sets discrete_state_transition_ to the n_states x n_states matrix of the
\* builder of that name, every row summing to 1.
C6_DiscreteFitSucceeds ==
    Ran("fit_discrete_state_transition") =>
        /\ ~Raised("fit_discrete_state_transition")
        /\ IsSet(self.discrete_state_transition_)
        /\ LET matrix == Val(self.discrete_state_transition_)
           IN /\ Len(matrix) = n_states
              /\ \A i \in 1..n_states :
                     /\ Len(matrix[i]) = n_states
                     /\ RowSum(matrix, i) = One
                     /\ matrix[i][i] =
                            CASE self.discrete_transition_type = "strong_diagonal" ->
                                    self.discrete_transition_diag
                              [] self.discrete_transition_type = "identity" -> One
                              [] self.discrete_transition_type = "uniform" ->
                                    Rat(1, n_states)

\* C7: after fit_initial_conditions, initial_conditions_ has shape
\* (n_states, n_bins, 1), is the uniform distribution on the interior bins
\* replicated over the regimes and divided by n_states, sums to 1 over all
\* (regime, bin) pairs and is 0 on every exterior bin.
C7_InitialConditions ==
    Returned("fit_initial_conditions") =>
        /\ IsSet(self.initial_conditions_)
        /\ LET initial_conditions == Val(self.initial_conditions_)
               is_track_interior == Val(self.is_track_interior_)
               n_interior == Cardinality({b \in Bins : is_track_interior[b]})
           IN /\ Len(initial_conditions) = n_states
              /\ \A s \in 1..n_states :
                     /\ DOMAIN initial_conditions[s] = Bins
                     /\ \A b \in Bins :
                            /\ Len(initial_conditions[s][b]) = 1
                            /\ initial_conditions[s][b][1] =
                                   IF is_track_interior[b]
                                   THEN Rat(1, n_interior * n_states)
                                   ELSE Zero
              /\ JointSum(initial_conditions) = One

C7_Witness ==
    /\ Returned("fit_initial_conditions")
    /\ n_states >= 2
    /\ \E b, c \in Bins :
          /\ ~Val(self.is_track_interior_)[b]
          /\ Val(self.initial_conditions_)[n_states][b][1] = Zero
          /\ Val(self.initial_conditions_)[n_states][c][1] # Zero

\* C8: the causal posterior predict returns sums to 1 over the joint
\* (regime, bin) space at every time step, and is 0 on the exterior bins.
C8_PosteriorIsDistribution ==
    (last.op = "predict" /\ last.err = "none") =>
        \A t \in 1..Len(last.out) :
           /\ JointSum(last.out[t]) = One
           /\ \A s \in 1..Len(last.out[t]), b \in Bins :
                  ~Val(self.is_track_interior_)[b] => last.out[t][s][b][1] = Zero

\* C9: fit on a free-space grid with a supplied is_track_interior fits that
\* mask, whatever infer_track_interior is, and the initial conditions and
\* the transitions are those of that mask.
C9_SuppliedMaskIsFitted ==
    (last.op = "fit" /\ last.track_graph = NoGraph /\ ~IsNone(last.is_track_interior)) =>
        /\ last.err = "none"
        /\ self.is_track_interior_ = last.is_track_interior
        /\ self.initial_conditions_ =
               Some([s \in 1..n_states |->
                       [b \in Bins |->
                           <<RDiv(uniform_on_track(Val(last.is_track_interior))[b],
                                  Rat(n_states, 1))>>]])

\* the state fit computes: the grid, the mask, the track-graph lookups, the
\* initial conditions, the transition tensors and the observation model
Fitted(obj) ==
    <<obj.edges_, obj.place_bin_centers_, obj.is_track_interior_,
      obj.place_bin_center_ind_to_node_, obj.distance_between_nodes_,
      obj.initial_conditions_, obj.continuous_state_transition_,
      obj.discrete_state_transition_, obj.observation_model_>>

\* C10: after a fit that returned, the fitted state is the one the same fit
\* computes on a newly constructed instance of the same configuration: no
\* value is left over from an earlier call.
C10_FitOverwritesFittedState ==
    (last.op = "fit" /\ last.err = "none") =>
        Fitted(self) = Fitted(fit(Renew(self), last.position, last.is_training,
                                  last.is_track_interior, last.track_graph).self)

\* C11: predict leaves every configuration parameter and every fitted
\* attribute of the instance unchanged, and a predict that follows a predict
\* on the same input returns the same result.
C11_PredictLeavesInstance ==
    [][last'.op = "predict" =>
          /\ self' = self
          /\ (last.op = "predict" /\ last.observations = last'.observations) =>
                 (last'.err = last.err /\ last'.out = last.out)]_vars

\* a fitted model has decoded a sequence of observations
C11_Witness ==
    /\ last.op = "predict"
    /\ last.err = "none"
    /\ IsSet(self.observation_model_)
    /\ \E t \in 1..Len(last.out) : JointSum(last.out[t]) = One

\* the fitting steps of fit, in the order of the pipeline
FitSteps ==
    <<"fit_place_grid", "fit_initial_conditions", "fit_continuous_state_transition",
      "fit_discrete_state_transition", "fit_observation_model">>

\* what the grid step of the last fit assigns, whatever the instance held
GridOfLastFit ==
    fit_place_grid(Renew(self), last.position, last.track_graph,
                   self.infer_track_interior, last.is_track_interior)

\* C12: in every fit the steps run once each in the order grid, initial
\* conditions, continuous transition, discrete transition, observation
\* model, and a step runs only after the grid step of the same call has set
\* the attributes it reads (place_bin_centers_, is_track_interior_, edges_).
C12_StepsInOrderOnSetAttributes ==
    last.op = "fit" =>
        /\ Len(last.steps) >= 1
        /\ Len(last.steps) <= Len(FitSteps)
        /\ \A k \in 1..Len(last.steps) : last.steps[k] = FitSteps[k]
        /\ Len(last.steps) >= 2 =>
               /\ IsSet(GridOfLastFit.place_bin_centers_)
               /\ IsSet(GridOfLastFit.is_track_interior_)
               /\ IsSet(GridOfLastFit.edges_)

\* C13: after copy(), a change to the copy's configuration and a fit of the
\* copy leave the original's configuration and fitted attributes unchanged,
\* and a change to or a fit of the original leaves the copy's unchanged.
C13_CopyIsIndependent ==
    [][copied.instance # NoClassifier =>
          /\ last'.op \in {"copy.fit", "copy.setattr", "copy.setitem"} => self' = self
          /\ last'.op \in {"fit", "setitem"} => copied'.instance = copied.instance]_vars

\* the copy of a fitted classifier was fitted again, on another grid
C13_Witness ==
    /\ last.op = "copy.fit"
    /\ last.err = "none"
    /\ IsSet(self.observation_model_)
    /\ copied.instance.place_bin_centers_ # self.place_bin_centers_
    /\ copied.instance.continuous_state_transition_ # self.continuous_state_transition_

\* C14: fit and predict called on the classifier base always fail with
\* NotImplementedError and change no attribute of the instance.
C14_BaseRaisesNotImplemented ==
    [][last'.op \in {"fit", "predict"} =>
          (last'.err = "NotImplementedError" /\ self' = self)]_vars

\* C15: once the initial conditions and both transitions have been computed,
\* by fit or by the public fitting steps in any sequence, their regime
\* dimensions all equal len(continuous_transition_types), the number of
\* state labels of predict.
C15_RegimeCountIsConfigured ==
    (/\ IsSet(self.initial_conditions_)
     /\ IsSet(self.continuous_state_transition_)
     /\ IsSet(self.discrete_state_transition_)) =>
        /\ Len(Val(self.initial_conditions_)) = n_states
        /\ Len(Val(self.continuous_state_transition_)) = n_states
        /\ \A r \in 1..Len(Val(self.continuous_state_transition_)) :
               Len(Val(self.continuous_state_transition_)[r]) = n_states
        /\ Len(Val(self.discrete_state_transition_)) = n_states
        /\ \A r \in 1..Len(Val(self.discrete_state_transition_)) :
               Len(Val(self.discrete_state_transition_)[r]) = n_states

\* the time bins t flagged for training whose successor t + 1 is flagged
\* too, counted by the bin at t + 1 (axis 0) and the bin at t (axis 1)
AdjacentTrainingPairs(position, is_training) ==
    LET flagged == IF IsNone(is_training)
                   THEN [t \in 1..Len(position) |-> TRUE]
                   ELSE Val(is_training)
    IN [a \in Bins |->
          [b \in Bins |->
              Rat(Cardinality({t \in 1..(Len(position) - 1) :
                                  /\ flagged[t] /\ flagged[t + 1]
                                  /\ position[t + 1] = a /\ position[t] = b}), 1)]]

\* C16: every pair empirical_movement counts in the movement histogram is a
\* pair of training samples at adjacent time bins t and t + 1; no pair is
\* formed across a gap of the training mask.
C16_PairsAreAdjacentInTime ==
    last.op = "empirical_movement" =>
        /\ movement_histogram(training_position(last.position, last.is_training))
               = AdjacentTrainingPairs(last.position, last.is_training)
        /\ last.replay_speed = 1 =>
               last.out.val = _normalize_row_probability(
                                  AdjacentTrainingPairs(last.position, last.is_training))

====
